---- MODULE Spec2Model ----
(***************************************************************************)
(* Concurrency protocol of the collaborative doubly-linked node list:      *)
(* addNodeExclusive / removeNodeExclusive (BackEnd/src/handlers/node.ts)   *)
(* run through withRetry (BackEnd/src/utils/retry.ts) against the "nodes"  *)
(* collection of a MongoDB replica set.                                    *)
(*                                                                         *)
(* Storage semantics (what the mongoose calls of the source do):           *)
(*  - session.withTransaction opens a multi-document transaction whose     *)
(*    reads see the snapshot taken by its first statement plus its own     *)
(*    writes;                                                              *)
(*  - a write to a document that another open transaction has written, or  *)
(*    that was changed by a transaction committed after the snapshot,      *)
(*    fails with WriteConflict (label TransientTransactionError);          *)
(*  - withTransaction aborts the transaction when the callback throws, and *)
(*    runs the callback again (same session, new transaction) when the     *)
(*    error carries TransientTransactionError; any other error is rethrown *)
(*    to withRetry's catch block;                                          *)
(*  - a findOneAndUpdate / findOneAndDelete whose filter matches no        *)
(*    document of the transaction's view returns null.                     *)
(* The 120 s time limit of withTransaction is not modelled.                *)
(*                                                                         *)
(* Every await of the source is a scheduling point.  A read that does not  *)
(* start the transaction is taken together with the write that follows it  *)
(* (it reads the fixed snapshot, so it commutes with every other session); *)
(* abortTransaction is taken together with the throw that causes it.       *)
(***************************************************************************)
EXTENDS Integers, Sequences, FiniteSets, TLC

\* ------------------------------------------------------------------ bounds
\* Number of concurrent client calls (each one addNodeExclusive or
\* removeNodeExclusive call, or none).
NumProcs == 2
\* Longest chain persisted before the calls start.
MaxInit == 4
\* Number of concurrent withRetry calls that run an arbitrary operation.
NumClosures == 1
\* Longest initial chain when the socket handlers and a client are modelled.
MaxInitHandler == 1

\* ------------------------------------------------------- program constants
\* withRetry(operation, maxRetries = 10)
maxRetries == 10

Procs == 1..NumProcs
\* Node ids.  0 stands for null.  1..MaxInit name the nodes of the initial
\* chain (those beyond its length are ids no document has); MaxInit + p is
\* the _id of the document that call p constructs (new Node(...)).  Every
\* run of the callback constructs a fresh _id, but an aborted run's _id is
\* never persisted nor returned, so one name per call suffices.
Nil == 0
OldIds == 1..MaxInit
Ids == 1..(MaxInit + NumProcs)
NewId(p) == MaxInit + p

\* A document of the collection (NodeSchema: prev, next, version).
Doc(p, n, v) == [prev |-> p, next |-> n, version |-> v]
\* No document under this _id.
None == [prev |-> Nil, next |-> Nil, version |-> -1]
\* Write-set marker: the transaction has not written this _id.
Untouched == [prev |-> Nil, next |-> Nil, version |-> -2]

\* IUpdatedNodes entry: -1 marks a key the entry does not carry.
Unset == -1
NoUpdate == [prev |-> Unset, next |-> Unset]
NoUpdates == [i \in Ids |-> NoUpdate]

\* Errors: conflictError(message) has name "ConflictError"; new Error("RETRY")
\* has name "Error".
NoError == [name |-> "", message |-> ""]
ReferenceDeleted == "Reference node was deleted"
NextDeleted == "Next node deleted concurrently"
PrevDeleted == "Previous node deleted concurrently"
NotFound == "Node not found or already deleted"
Exhausted == "Could not complete operation after several retries"
NoResult == "Transaction yielded no result"

\* No "error" message has been emitted for the request.
NoErrorSent == [message |-> "", operation |-> ""]

\* let result: T | undefined.  A defined result is named by the attempt
\* whose callback returned it.
Undefined == -1

VARIABLES
    db,            \* committed collection: _id -> document or None
    init,          \* length of the chain persisted before the calls
    ops,           \* per call: [kind, arg]
    pc,            \* per call: control point
    attempt,       \* per call: withRetry's attempt counter
    snap,          \* per call: snapshot of the open transaction
    wr,            \* per call: write set of the open transaction
    loc,           \* per call: locals of the callback (prevId, nextId, version)
    updatedNodes,  \* per call: the callback's updatedNodes map
    err,           \* per call: error being thrown / rejection reason
    status,        \* per call: "pending" | "fulfilled" | "rejected"
    log,           \* sequence of calls in commit order
    transient,     \* per call: withTransaction re-ran the callback after a WriteConflict
    sessions,      \* per call: sessions started and not yet ended
    result,        \* per call: withRetry's result variable
    emitted,       \* sequence of the io.emit broadcasts, in emit order
    errors,        \* per call: the "error" message emitted to its socket
    connected,     \* per call: the socket that sent the request is connected
    attach         \* the socket that connects while the calls run: phase of
                   \* its connection handler, snapshot read, broadcasts so far

vars == <<db, init, ops, attach, pc, attempt, snap, wr, loc, updatedNodes, err, status, log,
          transient, sessions, result, emitted, errors, connected>>


\* ------------------------------------------------------------ storage view
NoSnap == [i \in Ids |-> None]

\* No socket has connected besides those of the calls.
NotAttached == [phase |-> "none", nodes |-> NoSnap, at |-> 0]
NoWrites == [i \in Ids |-> Untouched]
NoLoc == [prevId |-> Nil, nextId |-> Nil, version |-> 0]

\* Variant: reads that return the latest committed document instead of the
\* transaction's snapshot.
TxViewReadCommitted(p, i) == IF wr[p][i] # Untouched THEN wr[p][i] ELSE db[i]

\* What a read of _id i inside p's transaction returns (.session(session)).
TxView(p, i) == IF wr[p][i] # Untouched THEN wr[p][i] ELSE snap[p][i]

\* Variant: writes that miss the changes committed after the snapshot (the
\* statement runs without the transaction's conflict check).
WriteConflictOpenOnly(p, i) == \E q \in Procs \ {p} : wr[q][i] # Untouched

\* A write of p to _id i raises WriteConflict: another open transaction has
\* written i, or i changed in the collection after p's snapshot.
WriteConflict(p, i) ==
    \/ \E q \in Procs \ {p} : wr[q][i] # Untouched
    \/ db[i] # snap[p][i]

\* Node.findOne({ prev: null }) evaluated on a collection state.
Heads(d) == {i \in Ids : d[i] # None /\ d[i].prev = Nil}

\* Variant: the error is built without error.name = 'ConflictError'.
conflictErrorUnnamed(message) == [name |-> "Error", message |-> message]

conflictError(message) == [name |-> "ConflictError", message |-> message]
RetryError == [name |-> "Error", message |-> "RETRY"]
isConflictError(e) == e.name = "ConflictError"

\* ------------------------------------------------- withTransaction outcomes
\* The callback threw e (not transient): the transaction is aborted and e is
\* rethrown into withRetry's catch block.
Throw(p, e) ==
    /\ wr' = [wr EXCEPT ![p] = NoWrites]
    /\ snap' = [snap EXCEPT ![p] = NoSnap]
    /\ err' = [err EXCEPT ![p] = e]
    /\ pc' = [pc EXCEPT ![p] = "catch"]
    /\ UNCHANGED <<db, init, ops, attach, emitted, errors, connected, attempt, loc, updatedNodes, status, log, transient,
                   sessions, result>>

\* Variant: the writes were issued without { session } and stay in the
\* collection when the callback is re-run.
TransientRetryWritesThrough(p) ==
    /\ db' = [i \in Ids |-> IF wr[p][i] # Untouched THEN wr[p][i] ELSE db[i]]
    /\ wr' = [wr EXCEPT ![p] = NoWrites]
    /\ snap' = [snap EXCEPT ![p] = NoSnap]
    /\ loc' = [loc EXCEPT ![p] = NoLoc]
    /\ updatedNodes' = [updatedNodes EXCEPT ![p] = NoUpdates]
    /\ pc' = [pc EXCEPT ![p] = "callback"]
    /\ transient' = [transient EXCEPT ![p] = TRUE]
    /\ UNCHANGED <<init, ops, attach, emitted, errors, connected, attempt, err, status, log, sessions, result>>

\* Variant: updatedNodes declared outside the callback, so a re-run appends
\* to the entries of the aborted run.
TransientRetryKeepsUpdatedNodes(p) ==
    /\ wr' = [wr EXCEPT ![p] = NoWrites]
    /\ snap' = [snap EXCEPT ![p] = NoSnap]
    /\ loc' = [loc EXCEPT ![p] = NoLoc]
    /\ pc' = [pc EXCEPT ![p] = "callback"]
    /\ transient' = [transient EXCEPT ![p] = TRUE]
    /\ UNCHANGED <<db, init, ops, attach, emitted, errors, connected, attempt, err, status, log, sessions, result,
                   updatedNodes>>

\* Variant: the write conflict is thrown to withRetry's catch block as a
\* failed predicate is.
TransientRetryAsRetry(p) == Throw(p, RetryError)

\* A write raised WriteConflict: withTransaction aborts and calls
\* operation(session) again; withRetry's attempt counter is not touched.
TransientRetry(p) ==
    /\ wr' = [wr EXCEPT ![p] = NoWrites]
    /\ snap' = [snap EXCEPT ![p] = NoSnap]
    /\ loc' = [loc EXCEPT ![p] = NoLoc]
    /\ updatedNodes' = [updatedNodes EXCEPT ![p] = NoUpdates]
    /\ pc' = [pc EXCEPT ![p] = "callback"]
    /\ transient' = [transient EXCEPT ![p] = TRUE]
    /\ UNCHANGED <<db, init, ops, attach, emitted, errors, connected, attempt, err, status, log, sessions, result>>

\* Variant: the statement issued without .session(session) / { session }:
\* it writes the collection at once and takes no part in the transaction.
FindOneAndWriteNoSession(p, i, match, d, un, next) ==
    IF ~match
    THEN Throw(p, RetryError)
    ELSE /\ db' = [db EXCEPT ![i] = d]
         /\ updatedNodes' = [updatedNodes EXCEPT ![p] = un]
         /\ pc' = [pc EXCEPT ![p] = next]
         /\ result' = [result EXCEPT ![p] = IF next = "commit" THEN attempt[p] ELSE @]
         /\ UNCHANGED <<init, ops, attach, emitted, errors, connected, attempt, snap, wr, loc, err,
                        status, log, transient, sessions>>

\* findOneAndUpdate / findOneAndDelete of _id i inside p's transaction:
\* match is the filter evaluated on the transaction's view, d the document
\* after the update (None for a delete), un the callback's updatedNodes
\* after the statement that follows a non-null result, next the control
\* point reached ("commit" when the callback returns after the statement:
\* result = await operation(session)).
FindOneAndWrite(p, i, match, d, un, next) ==
    IF ~match
    THEN Throw(p, RetryError)
    ELSE IF WriteConflict(p, i)
    THEN TransientRetry(p)
    ELSE /\ wr' = [wr EXCEPT ![p][i] = d]
         /\ updatedNodes' = [updatedNodes EXCEPT ![p] = un]
         /\ pc' = [pc EXCEPT ![p] = next]
         /\ result' = [result EXCEPT ![p] = IF next = "commit" THEN attempt[p] ELSE @]
         /\ UNCHANGED <<db, init, ops, attach, emitted, errors, connected, attempt, snap, loc, err, status, log, transient,
                        sessions>>

\* The first statement of the callback opens the snapshot.
Begin(p, l, next) ==
    /\ snap' = [snap EXCEPT ![p] = db]
    /\ loc' = [loc EXCEPT ![p] = l]
    /\ pc' = [pc EXCEPT ![p] = next]
    /\ UNCHANGED <<db, init, ops, attach, emitted, errors, connected, attempt, wr, updatedNodes, err, status, log, transient,
                   sessions, result>>


\* --------------------------------------------------------------- withRetry
\* await session.endSession(): ending a session that has ended does nothing.
EndSession(n) == IF n > 0 THEN n - 1 ELSE 0

\* Variant: the loop test written attempt <= maxRetries.
WithRetry_LoopOffByOne(p) ==
    /\ pc[p] = "loop"
    /\ IF attempt[p] <= maxRetries
       THEN /\ pc' = [pc EXCEPT ![p] = "callback"]
            /\ sessions' = [sessions EXCEPT ![p] = @ + 1]
            /\ result' = [result EXCEPT ![p] = Undefined]
            /\ UNCHANGED <<err, status>>
       ELSE /\ pc' = [pc EXCEPT ![p] = "done"]
            /\ err' = [err EXCEPT ![p] = conflictError(Exhausted)]
            /\ status' = [status EXCEPT ![p] = "rejected"]
            /\ UNCHANGED <<sessions, result>>
    /\ UNCHANGED <<db, init, ops, attach, emitted, errors, connected, attempt, snap, wr, loc, updatedNodes, log, transient>>

\* while (attempt < maxRetries) { session = await mongoose.startSession();
\* let result: T | undefined; ... and, past the loop,
\* throw conflictError("Could not complete ...").
WithRetry_Loop(p) ==
    /\ pc[p] = "loop"
    /\ IF attempt[p] < maxRetries
       THEN /\ pc' = [pc EXCEPT ![p] = "callback"]
            /\ sessions' = [sessions EXCEPT ![p] = @ + 1]
            /\ result' = [result EXCEPT ![p] = Undefined]
            /\ UNCHANGED <<err, status>>
       ELSE /\ pc' = [pc EXCEPT ![p] = "done"]
            /\ err' = [err EXCEPT ![p] = conflictError(Exhausted)]
            /\ status' = [status EXCEPT ![p] = "rejected"]
            /\ UNCHANGED <<sessions, result>>
    /\ UNCHANGED <<db, init, ops, attach, emitted, errors, connected, attempt, snap, wr, loc, updatedNodes, log, transient>>

\* Variant: the catch block without its "RETRY" branch.
WithRetry_CatchRethrowsRetry(p) ==
    /\ pc[p] = "catch"
    /\ pc' = [pc EXCEPT ![p] = "done"]
    /\ status' = [status EXCEPT ![p] = "rejected"]
    /\ sessions' = [sessions EXCEPT ![p] = EndSession(@)]
    /\ UNCHANGED <<db, init, ops, attach, emitted, errors, connected, attempt, snap, wr, loc, updatedNodes, err, log,
                   transient, result>>

\* Variant: every error that is not a ConflictError is counted and retried.
WithRetry_CatchRetriesOther(p) ==
    /\ pc[p] = "catch"
    /\ IF ~isConflictError(err[p])
       THEN /\ attempt' = [attempt EXCEPT ![p] = @ + 1]
            /\ pc' = [pc EXCEPT ![p] = "loop"]
            /\ err' = [err EXCEPT ![p] = NoError]
            /\ loc' = [loc EXCEPT ![p] = NoLoc]
            /\ updatedNodes' = [updatedNodes EXCEPT ![p] = NoUpdates]
            /\ UNCHANGED status
       ELSE /\ pc' = [pc EXCEPT ![p] = "done"]
            /\ status' = [status EXCEPT ![p] = "rejected"]
            /\ UNCHANGED <<attempt, err, loc, updatedNodes>>
    /\ sessions' = [sessions EXCEPT ![p] = EndSession(@)]
    /\ UNCHANGED <<db, init, ops, attach, emitted, errors, connected, snap, wr, log, transient, result>>

\* Variant: a ConflictError is counted and retried like "RETRY".
WithRetry_CatchRetriesConflict(p) ==
    /\ pc[p] = "catch"
    /\ IF isConflictError(err[p]) \/ err[p].message = "RETRY"
       THEN /\ attempt' = [attempt EXCEPT ![p] = @ + 1]
            /\ pc' = [pc EXCEPT ![p] = "loop"]
            /\ err' = [err EXCEPT ![p] = NoError]
            /\ loc' = [loc EXCEPT ![p] = NoLoc]
            /\ updatedNodes' = [updatedNodes EXCEPT ![p] = NoUpdates]
            /\ UNCHANGED status
       ELSE /\ pc' = [pc EXCEPT ![p] = "done"]
            /\ status' = [status EXCEPT ![p] = "rejected"]
            /\ UNCHANGED <<attempt, err, loc, updatedNodes>>
    /\ sessions' = [sessions EXCEPT ![p] = EndSession(@)]
    /\ UNCHANGED <<db, init, ops, attach, emitted, errors, connected, snap, wr, log, transient, result>>

\* catch (err) { endSession; ConflictError -> rethrow; "RETRY" -> attempt += 1;
\* anything else -> rethrow }
WithRetry_Catch(p) ==
    /\ pc[p] = "catch"
    /\ IF ~isConflictError(err[p]) /\ err[p].message = "RETRY"
       THEN /\ attempt' = [attempt EXCEPT ![p] = @ + 1]
            /\ pc' = [pc EXCEPT ![p] = "loop"]
            /\ err' = [err EXCEPT ![p] = NoError]
            /\ loc' = [loc EXCEPT ![p] = NoLoc]
            /\ updatedNodes' = [updatedNodes EXCEPT ![p] = NoUpdates]
            /\ UNCHANGED status
       ELSE /\ pc' = [pc EXCEPT ![p] = "done"]
            /\ status' = [status EXCEPT ![p] = "rejected"]
            /\ UNCHANGED <<attempt, err, loc, updatedNodes>>
    /\ sessions' = [sessions EXCEPT ![p] = EndSession(@)]
    /\ UNCHANGED <<db, init, ops, attach, emitted, errors, connected, snap, wr, log, transient, result>>

\* Variant: withRetry returns whatever the operation returned, undefined
\* included (return result without the test).
CommitAlwaysReturns(p) ==
    /\ pc[p] = "commit"
    /\ db' = [i \in Ids |-> IF wr[p][i] # Untouched THEN wr[p][i] ELSE db[i]]
    /\ wr' = [wr EXCEPT ![p] = NoWrites]
    /\ snap' = [snap EXCEPT ![p] = NoSnap]
    /\ log' = Append(log, p)
    /\ sessions' = [sessions EXCEPT ![p] = EndSession(@)]
    /\ status' = [status EXCEPT ![p] = "fulfilled"]
    /\ pc' = [pc EXCEPT ![p] = "done"]
    /\ UNCHANGED <<init, ops, attach, emitted, errors, connected, attempt, loc, updatedNodes,
                   transient, result, err>>

\* The callback returned: withTransaction commits, the session ends and
\* withRetry returns the result, or throws "Transaction yielded no result"
\* inside its own try block when the result is undefined.
Commit(p) ==
    /\ pc[p] = "commit"
    /\ db' = [i \in Ids |-> IF wr[p][i] # Untouched THEN wr[p][i] ELSE db[i]]
    /\ wr' = [wr EXCEPT ![p] = NoWrites]
    /\ snap' = [snap EXCEPT ![p] = NoSnap]
    /\ log' = Append(log, p)
    /\ sessions' = [sessions EXCEPT ![p] = EndSession(@)]
    /\ IF result[p] # Undefined
       THEN /\ status' = [status EXCEPT ![p] = "fulfilled"]
            /\ pc' = [pc EXCEPT ![p] = "done"]
            /\ UNCHANGED err
       ELSE /\ err' = [err EXCEPT ![p] = [name |-> "Error", message |-> NoResult]]
            /\ pc' = [pc EXCEPT ![p] = "catch"]
            /\ UNCHANGED status
    /\ UNCHANGED <<init, ops, attach, emitted, errors, connected, attempt, loc, updatedNodes, transient, result>>

\* ------------------------------------------------------------ insertAtHead
\* const head = await Node.findOne({ prev: null }).session(session);
\* const newNode = new Node({ prev: null, next: head?._id ?? null, version: 0 })
InsertAtHead_FindHead(p) ==
    /\ pc[p] = "callback"
    /\ ops[p].kind = "add"
    /\ ops[p].arg = Nil
    /\ IF Heads(db) = {}
       THEN Begin(p, NoLoc, "save")
       ELSE \E h \in Heads(db) :
                Begin(p, [prevId |-> Nil, nextId |-> h, version |-> db[h].version],
                      "ih_updateHead")

\* The filter { _id: head._id, prev: null, version: head.version }.
HeadFilter(d, l) == d # None /\ d.prev = Nil /\ d.version = l.version

\* The same update writing version: 0, as new Node(...) does.
HeadUpdateResetVersion(d, newId) == [d EXCEPT !.prev = newId, !.version = 0]

\* The update { prev: newNode._id, $inc: { version: 1 } }.
HeadUpdate(d, newId) == [d EXCEPT !.prev = newId, !.version = @ + 1]

InsertAtHead_UpdateHead(p) ==
    /\ pc[p] = "ih_updateHead"
    /\ LET h == loc[p].nextId
           d == TxView(p, h)
       IN FindOneAndWrite(p, h, HeadFilter(d, loc[p]),
              HeadUpdate(d, NewId(p)),
              [updatedNodes[p] EXCEPT ![h] = [prev |-> NewId(p), next |-> Unset]],
              "save")

\* ------------------------------------------------------------- insertAfter
\* const prev = await Node.findById(prevId).session(session);
\* Variant: a missing reference node reported as a failed predicate.
ReferenceNodeDeletedRetry == RetryError

\* if (!prev) throw conflictError("Reference node was deleted")
ReferenceNodeDeleted == conflictError(ReferenceDeleted)

InsertAfter_FindPrev(p) ==
    /\ pc[p] = "callback"
    /\ ops[p].kind = "add"
    /\ ops[p].arg # Nil
    /\ LET prev == db[ops[p].arg]
       IN IF prev = None
          THEN Throw(p, ReferenceNodeDeleted)
          ELSE Begin(p, [prevId |-> ops[p].arg, nextId |-> prev.next,
                         version |-> prev.version], "ia_updatePrev")

\* The filter { _id: prev._id, version: prev.version, next: nextId }.
PrevFilter(d, l) == d # None /\ d.version = l.version /\ d.next = l.nextId

\* Variant: the update without $inc.
PrevUpdateNoInc(d, newId) == [d EXCEPT !.next = newId]

\* The update { next: newNode._id, $inc: { version: 1 } }.
PrevUpdate(d, newId) == [d EXCEPT !.next = newId, !.version = @ + 1]

InsertAfter_UpdatePrev(p) ==
    /\ pc[p] = "ia_updatePrev"
    /\ LET i == loc[p].prevId
           d == TxView(p, i)
       IN FindOneAndWrite(p, i, PrevFilter(d, loc[p]),
              PrevUpdate(d, NewId(p)),
              [updatedNodes[p] EXCEPT ![i] = [prev |-> Unset, next |-> NewId(p)]],
              IF loc[p].nextId # Nil THEN "ia_updateNext" ELSE "save")

\* Variant: the filter written with prev: newNode._id, which the successor
\* does not carry yet.
NextFilterNewPrev(d, next, prevId) ==
    d # None /\ d.version = next.version /\ d.prev # prevId

\* The filter { _id: next._id, version: next.version, prev: prev._id }.
NextFilter(d, next, prevId) == d # None /\ d.version = next.version /\ d.prev = prevId

\* Variant: the update without $inc.
NextUpdateNoInc(d, newId) == [d EXCEPT !.prev = newId]

\* The update { prev: newNode._id, $inc: { version: 1 } }.
NextUpdate(d, newId) == [d EXCEPT !.prev = newId, !.version = @ + 1]

InsertAfter_UpdateNext(p) ==
    /\ pc[p] = "ia_updateNext"
    /\ LET i == loc[p].nextId
           next == TxView(p, i)
       IN IF next = None
          THEN Throw(p, conflictError(NextDeleted))
          ELSE FindOneAndWrite(p, i, NextFilter(TxView(p, i), next, loc[p].prevId),
                   NextUpdate(next, NewId(p)),
                   [updatedNodes[p] EXCEPT ![i] = [prev |-> NewId(p), next |-> Unset]],
                   "save")

\* Variant: the new document built without its next pointer.
newNodeNoNext(p) == Doc(loc[p].prevId, Nil, 0)

\* The document new Node({ prev, next, version: 0 }) of the running callback.
newNode(p) == Doc(loc[p].prevId, loc[p].nextId, 0)

\* Variant: newNode.save() without { session }: the document is inserted
\* outside the transaction.
SaveWithoutSession(p) ==
    /\ pc[p] = "save"
    /\ db' = [db EXCEPT ![NewId(p)] = newNode(p)]
    /\ pc' = [pc EXCEPT ![p] = "commit"]
    /\ result' = [result EXCEPT ![p] = attempt[p]]
    /\ UNCHANGED <<init, ops, attach, emitted, errors, connected, attempt, snap, wr, loc, updatedNodes, err,
                   status, log, transient, sessions>>

\* await newNode.save({ session }); the callback then returns
\* { createdNode, updatedNodes }.
Save(p) ==
    /\ pc[p] = "save"
    /\ wr' = [wr EXCEPT ![p][NewId(p)] = newNode(p)]
    /\ pc' = [pc EXCEPT ![p] = "commit"]
    /\ result' = [result EXCEPT ![p] = attempt[p]]
    /\ UNCHANGED <<db, init, ops, attach, emitted, errors, connected, attempt, snap, loc, updatedNodes, err, status, log,
                   transient, sessions>>

\* ----------------------------------------------------- removeNodeExclusive
\* Variant: a missing node reported as a failed predicate.
NodeNotFoundRetry == RetryError

\* if (!nodeToDelete) throw conflictError("Node not found or already deleted")
NodeNotFound == conflictError(NotFound)

\* const nodeToDelete = await Node.findById(nodeId).session(session);
Remove_FindNode(p) ==
    /\ pc[p] = "callback"
    /\ ops[p].kind = "remove"
    /\ LET nodeToDelete == db[ops[p].arg]
       IN IF nodeToDelete = None
          THEN Throw(p, NodeNotFound)
          ELSE Begin(p, [prevId |-> nodeToDelete.prev, nextId |-> nodeToDelete.next,
                         version |-> nodeToDelete.version],
                     IF nodeToDelete.prev # Nil THEN "rm_updatePrev"
                     ELSE IF nodeToDelete.next # Nil THEN "rm_updateNext"
                     ELSE "rm_delete")

\* The filter { _id: prevId, version: prev.version, next: nodeId }.
RemovePrevFilter(d, prev, nodeId) ==
    d # None /\ d.version = prev.version /\ d.next = nodeId

\* Variant: the update that leaves the predecessor's next in place.
RemovePrevUpdateKeepNext(d, nextId) == [d EXCEPT !.version = @ + 1]

\* The update { next: nextId, $inc: { version: 1 } }.
RemovePrevUpdate(d, nextId) == [d EXCEPT !.next = nextId, !.version = @ + 1]

Remove_UpdatePrev(p) ==
    /\ pc[p] = "rm_updatePrev"
    /\ LET i == loc[p].prevId
           prev == TxView(p, i)
       IN IF prev = None
          THEN Throw(p, conflictError(PrevDeleted))
          ELSE FindOneAndWrite(p, i, RemovePrevFilter(TxView(p, i), prev, ops[p].arg),
                   RemovePrevUpdate(prev, loc[p].nextId),
                   [updatedNodes[p] EXCEPT ![i] = [prev |-> Unset, next |-> loc[p].nextId]],
                   IF loc[p].nextId # Nil THEN "rm_updateNext" ELSE "rm_delete")

\* The filter { _id: nextId, version: next.version, prev: nodeId }.
RemoveNextFilter(d, next, nodeId) ==
    d # None /\ d.version = next.version /\ d.prev = nodeId

\* Variant: the update that leaves the successor's prev in place.
RemoveNextUpdateKeepPrev(d, prevId) == [d EXCEPT !.version = @ + 1]

\* The update { prev: prevId, $inc: { version: 1 } }.
RemoveNextUpdate(d, prevId) == [d EXCEPT !.prev = prevId, !.version = @ + 1]

Remove_UpdateNext(p) ==
    /\ pc[p] = "rm_updateNext"
    /\ LET i == loc[p].nextId
           next == TxView(p, i)
       IN IF next = None
          THEN Throw(p, conflictError(NextDeleted))
          ELSE FindOneAndWrite(p, i, RemoveNextFilter(TxView(p, i), next, ops[p].arg),
                   RemoveNextUpdate(next, loc[p].prevId),
                   [updatedNodes[p] EXCEPT ![i] = [prev |-> loc[p].prevId, next |-> Unset]],
                   "rm_delete")

\* The filter { _id: nodeId, version: nodeToDelete.version }.
DeleteFilter(d, l) == d # None /\ d.version = l.version

\* const deleted = await Node.findOneAndDelete(...)
Remove_Delete(p) ==
    /\ pc[p] = "rm_delete"
    /\ LET i == ops[p].arg
       IN FindOneAndWrite(p, i, DeleteFilter(TxView(p, i), loc[p]),
              None, updatedNodes[p], "commit")

\* ------------------------------------------------------------ system
\* The calls a client can issue: addNode(null), addNode(id), removeNode(id).
NoOp == [kind |-> "none", arg |-> Nil]
Ops == {NoOp} \cup {[kind |-> "add", arg |-> a] : a \in {Nil} \cup OldIds}
              \cup {[kind |-> "remove", arg |-> a] : a \in OldIds}

\* The calls are interchangeable and so are the ids that name no document:
\* Init lists the calls in a fixed order (adds, removes, then none) and uses
\* at most one id beyond the chain.
OpRank(o) ==
    (CASE o.kind = "add" -> 0 [] o.kind = "remove" -> 1 [] OTHER -> 2) * (MaxInit + 1) + o.arg

\* The chain 1 -> 2 -> ... -> n, every version 0.
Chain(n) ==
    [i \in Ids |-> IF i <= n THEN Doc(i - 1, IF i < n THEN i + 1 ELSE Nil, 0) ELSE None]

Init ==
    /\ init \in 0..MaxInit
    /\ db = Chain(init)
    /\ ops \in [Procs -> Ops]
    /\ \A p \in Procs : ops[p].arg <= init + 1
    /\ \A p, q \in Procs : p < q => OpRank(ops[p]) <= OpRank(ops[q])
    /\ pc = [p \in Procs |-> IF ops[p] = NoOp THEN "idle" ELSE "loop"]
    /\ attempt = [p \in Procs |-> 0]
    /\ snap = [p \in Procs |-> NoSnap]
    /\ wr = [p \in Procs |-> NoWrites]
    /\ loc = [p \in Procs |-> NoLoc]
    /\ updatedNodes = [p \in Procs |-> NoUpdates]
    /\ err = [p \in Procs |-> NoError]
    /\ status = [p \in Procs |-> IF ops[p] = NoOp THEN "none" ELSE "pending"]
    /\ log = <<>>
    /\ transient = [p \in Procs |-> FALSE]
    /\ sessions = [p \in Procs |-> 0]
    /\ result = [p \in Procs |-> Undefined]
    /\ emitted = <<>>
    /\ errors = [p \in Procs |-> NoErrorSent]
    /\ connected = [p \in Procs |-> TRUE]
    /\ attach = NotAttached

Next ==
    \E p \in Procs :
        \/ WithRetry_Loop(p)
        \/ WithRetry_Catch(p)
        \/ InsertAtHead_FindHead(p)
        \/ InsertAtHead_UpdateHead(p)
        \/ InsertAfter_FindPrev(p)
        \/ InsertAfter_UpdatePrev(p)
        \/ InsertAfter_UpdateNext(p)
        \/ Save(p)
        \/ Remove_FindNode(p)
        \/ Remove_UpdatePrev(p)
        \/ Remove_UpdateNext(p)
        \/ Remove_Delete(p)
        \/ Commit(p)

Spec == Init /\ [][Next]_vars

\* Some step of call p.
Step(p) ==
    \/ WithRetry_Loop(p)
    \/ WithRetry_Catch(p)
    \/ InsertAtHead_FindHead(p)
    \/ InsertAtHead_UpdateHead(p)
    \/ InsertAfter_FindPrev(p)
    \/ InsertAfter_UpdatePrev(p)
    \/ InsertAfter_UpdateNext(p)
    \/ Save(p)
    \/ Remove_FindNode(p)
    \/ Remove_UpdatePrev(p)
    \/ Remove_UpdateNext(p)
    \/ Remove_Delete(p)
    \/ Commit(p)

\* The event loop resumes every call whose awaited promise has settled: no
\* call that can take a step waits forever.
SpecFair == Init /\ [][Next]_vars /\ \A p \in Procs : WF_vars(Step(p))

\* ------------------------------------------- withRetry with any operation
\* withRetry<T>(operation: (session) => Promise<T>, maxRetries = 10) called
\* with an operation of which only the outcome of each run is known.
ClosureOp == [kind |-> "closure", arg |-> Nil]

\* An error that is neither a ConflictError nor new Error("RETRY").
StorageError == [name |-> "MongoNetworkError", message |-> "connection closed"]

\* What a run of the operation can throw, as withRetry's catch block tells
\* errors apart.
ClosureErrors == {conflictError(NotFound), RetryError, StorageError}

\* result = await operation(session) throws.
Closure_Throw(p) ==
    /\ pc[p] = "callback"
    /\ ops[p] = ClosureOp
    /\ \E e \in ClosureErrors : Throw(p, e)

\* result = await operation(session) returns a value or undefined.
Closure_Return(p) ==
    /\ pc[p] = "callback"
    /\ ops[p] = ClosureOp
    /\ \E r \in {Undefined, attempt[p]} : result' = [result EXCEPT ![p] = r]
    /\ pc' = [pc EXCEPT ![p] = "commit"]
    /\ UNCHANGED <<db, init, ops, attach, emitted, errors, connected, attempt, snap, wr, loc, updatedNodes, err, status, log,
                   transient, sessions>>

\* A write of the operation raised WriteConflict.
Closure_WriteConflict(p) ==
    /\ pc[p] = "callback"
    /\ ops[p] = ClosureOp
    /\ TransientRetry(p)

InitClosures ==
    /\ init = 0
    /\ db = Chain(init)
    /\ ops = [p \in Procs |-> IF p <= NumClosures THEN ClosureOp ELSE NoOp]
    /\ pc = [p \in Procs |-> IF ops[p] = NoOp THEN "idle" ELSE "loop"]
    /\ attempt = [p \in Procs |-> 0]
    /\ snap = [p \in Procs |-> NoSnap]
    /\ wr = [p \in Procs |-> NoWrites]
    /\ loc = [p \in Procs |-> NoLoc]
    /\ updatedNodes = [p \in Procs |-> NoUpdates]
    /\ err = [p \in Procs |-> NoError]
    /\ status = [p \in Procs |-> IF ops[p] = NoOp THEN "none" ELSE "pending"]
    /\ log = <<>>
    /\ transient = [p \in Procs |-> FALSE]
    /\ sessions = [p \in Procs |-> 0]
    /\ result = [p \in Procs |-> Undefined]
    /\ emitted = <<>>
    /\ errors = [p \in Procs |-> NoErrorSent]
    /\ connected = [p \in Procs |-> TRUE]
    /\ attach = NotAttached

\* The calls of the handlers, or calls with an arbitrary operation.
InitRetry == Init \/ InitClosures

NextRetry ==
    \/ Next
    \/ \E p \in Procs :
           \/ Closure_Throw(p)
           \/ Closure_Return(p)
           \/ Closure_WriteConflict(p)

SpecRetry == InitRetry /\ [][NextRetry]_vars


\* ---------------------------------------------------------- socket handlers
\* io.on("connection"): every request of a client runs its handler; the
\* request of call p came from socket p.  socket.io delivers the messages of
\* one connection in the order they were emitted.
OperationName(p) == IF ops[p].kind = "add" THEN "addNode" ELSE "removeNode"

\* The sockets io.emit reaches.
Connected == {q \in Procs : connected[q]}

\* The payload of nodeAdded ({ createdNode, updatedNodes }) or nodeRemoved
\* ({ deletedNodeId, updatedNodes }) for the result of call p.
Delta(p) ==
    [event |-> IF ops[p].kind = "add" THEN "nodeAdded" ELSE "nodeRemoved",
     call |-> p,
     id |-> IF ops[p].kind = "add" THEN NewId(p) ELSE ops[p].arg,
     createdNode |-> IF ops[p].kind = "add" THEN newNode(p) ELSE None,
     updatedNodes |-> updatedNodes[p],
     to |-> Connected]

\* The calls whose delta has been broadcast.
Broadcast == {emitted[k].call : k \in 1..Len(emitted)}

\* Variant: the broadcast made whatever the outcome of the call.
Handler_EmitAlways(p) ==
    /\ pc[p] = "done"
    /\ p \notin Broadcast
    /\ emitted' = Append(emitted, Delta(p))
    /\ UNCHANGED <<db, init, ops, attach, pc, attempt, snap, wr, loc, updatedNodes, err, status,
                   log, transient, sessions, result, errors, connected>>

\* const result = await addNodeExclusive(prevNodeId); io.emit("nodeAdded", result)
\* (and the same for removeNode).
Handler_Emit(p) ==
    /\ pc[p] = "done"
    /\ status[p] = "fulfilled"
    /\ p \notin Broadcast
    /\ emitted' = Append(emitted, Delta(p))
    /\ UNCHANGED <<db, init, ops, attach, pc, attempt, snap, wr, loc, updatedNodes, err, status,
                   log, transient, sessions, result, errors, connected>>

\* catch (error) { socket.emit("error", { message, operation }) }
Handler_Error(p) ==
    /\ pc[p] = "done"
    /\ status[p] = "rejected"
    /\ errors[p] = NoErrorSent
    /\ errors' = [errors EXCEPT ![p] =
                     [message |-> err[p].message, operation |-> OperationName(p)]]
    /\ UNCHANGED <<db, init, ops, attach, pc, attempt, snap, wr, loc, updatedNodes, err, status,
                   log, transient, sessions, result, emitted, connected>>

\* Variant: the disconnect aborts the transaction and ends the call.
DisconnectCancels(p) ==
    /\ pc[p] \notin {"idle", "done"}
    /\ \A q \in Procs : connected[q]
    /\ connected' = [connected EXCEPT ![p] = FALSE]
    /\ wr' = [wr EXCEPT ![p] = NoWrites]
    /\ snap' = [snap EXCEPT ![p] = NoSnap]
    /\ sessions' = [sessions EXCEPT ![p] = 0]
    /\ err' = [err EXCEPT ![p] = [name |-> "Error", message |-> "disconnected"]]
    /\ status' = [status EXCEPT ![p] = "rejected"]
    /\ pc' = [pc EXCEPT ![p] = "done"]
    /\ UNCHANGED <<db, init, ops, attach, attempt, loc, updatedNodes, log, transient, result,
                   emitted, errors>>

\* socket.on("disconnect"): the handler logs and does nothing else.  One
\* client leaves while addNodeExclusive / removeNodeExclusive runs for it.
Disconnect(p) ==
    /\ pc[p] \notin {"idle", "done"}
    /\ \A q \in Procs : connected[q]
    /\ connected' = [connected EXCEPT ![p] = FALSE]
    /\ UNCHANGED <<db, init, ops, attach, pc, attempt, snap, wr, loc, updatedNodes, err, status,
                   log, transient, sessions, result, emitted, errors>>

InitHandler == Init /\ init <= MaxInitHandler

NextHandler ==
    \/ Next
    \/ \E p \in Procs :
           \/ Handler_Emit(p)
           \/ Handler_Error(p)
           \/ Disconnect(p)

SpecHandler == InitHandler /\ [][NextHandler]_vars

\* ------------------------------------------------------------ client store
\* The client's state.list: _id -> node or None.  A node is what toJSON
\* sends: id, prev, next, version.
\* initialState.list: {} (no node under any id).
initialState == [i \in Ids |-> None]

\* Variant: state.list[nodeId] = _.assign(state.list[nodeId] ?? {}, update),
\* which stores the update under an id the list does not hold.
AssignCreates(node, update) ==
    IF node = None THEN [prev |-> update.prev, next |-> update.next, version |-> Unset]
    ELSE [node EXCEPT !.prev = IF update.prev # Unset THEN update.prev ELSE @,
                      !.next = IF update.next # Unset THEN update.next ELSE @]

\* _.assign(state.list[nodeId], update): nothing happens to the list when it
\* holds no node under nodeId.
Assign(node, update) ==
    IF node = None THEN None
    ELSE [node EXCEPT !.prev = IF update.prev # Unset THEN update.prev ELSE @,
                      !.next = IF update.next # Unset THEN update.next ELSE @]

\* Object.entries(updatedNodes).forEach(([nodeId, update]) => _.assign(...))
ApplyUpdatedNodes(list, un) ==
    [i \in Ids |-> IF un[i] = NoUpdate THEN list[i] ELSE Assign(list[i], un[i])]

\* setNodes: state.list = _.keyBy(nodes, "id")
setNodes(nodes) == nodes

\* addNode: apply updatedNodes, then state.list[createdNode.id] = createdNode
addNode(list, payload) ==
    [ApplyUpdatedNodes(list, payload.updatedNodes) EXCEPT ![payload.id] = payload.createdNode]

\* removeNode: apply updatedNodes, then delete state.list[deletedNodeId]
removeNode(list, payload) ==
    [ApplyUpdatedNodes(list, payload.updatedNodes) EXCEPT ![payload.id] = None]

\* socket.on("nodeAdded" / "nodeRemoved"): dispatch the reducer.
Dispatch(list, payload) ==
    IF payload.event = "nodeAdded" THEN addNode(list, payload) ELSE removeNode(list, payload)

\* The list after the first k broadcasts were applied to list0 in order.
RECURSIVE ClientAfter(_, _)
ClientAfter(list0, k) ==
    IF k = 0 THEN list0 ELSE Dispatch(ClientAfter(list0, k - 1), emitted[k])

\* The list of a client that attached before the calls (its snapshot is the
\* initial chain; the empty list when init = 0) and received every broadcast.
Client == ClientAfter(setNodes(Chain(init)), Len(emitted))

\* ------------------------------------------------------- connection handler
\* io.on("connection"): const nodes = await Node.find({}).sort({ _id: 1 }).
\* The socket is connected from here on and receives every broadcast.
Attach_Find ==
    /\ attach.phase = "none"
    /\ attach' = [phase |-> "found", nodes |-> db, at |-> 0]
    /\ UNCHANGED <<db, init, ops, pc, attempt, snap, wr, loc, updatedNodes, err, status,
                   log, transient, sessions, result, emitted, errors, connected>>

\* socket.emit("nodes", { nodes }) after the await: the client dispatches
\* setNodes, which replaces its list; `at` is the number of broadcasts made
\* before that.
Attach_Emit ==
    /\ attach.phase = "found"
    /\ attach' = [attach EXCEPT !.phase = "synced", !.at = Len(emitted)]
    /\ UNCHANGED <<db, init, ops, pc, attempt, snap, wr, loc, updatedNodes, err, status,
                   log, transient, sessions, result, emitted, errors, connected>>

\* The list of the client that attached: setNodes(snapshot), then every
\* broadcast that followed, in order (those before it acted on the list
\* that setNodes replaced).
RECURSIVE AttachedAfter(_)
AttachedAfter(k) ==
    IF k <= attach.at THEN setNodes(attach.nodes)
    ELSE Dispatch(AttachedAfter(k - 1), emitted[k])

AttachedClient == AttachedAfter(Len(emitted))

NextAttach ==
    \/ Next
    \/ \E p \in Procs :
           \/ Handler_Emit(p)
           \/ Handler_Error(p)
    \/ Attach_Find
    \/ Attach_Emit

SpecAttach == InitHandler /\ [][NextAttach]_vars

\* ================================================================ properties
Persisted == {i \in Ids : db[i] # None}
Tails(d) == {i \in Ids : d[i] # None /\ d[i].next = Nil}
Calls == {p \in Procs : ops[p] # NoOp}
AllDone == \A p \in Calls : pc[p] = "done"
Fulfilled(p) == status[p] = "fulfilled"
Rejected(p) == status[p] = "rejected"
AddOf(a) == [kind |-> "add", arg |-> a]
RemoveOf(a) == [kind |-> "remove", arg |-> a]

\* C1 -- Pointer symmetry at every commit point: in the committed collection,
\* every non-null next of a persisted node N names a persisted node whose prev
\* is N, and every non-null prev names a persisted node whose next is N.
PointerSymmetry ==
    \A i \in Persisted :
        /\ db[i].next # Nil => db[db[i].next] # None /\ db[db[i].next].prev = i
        /\ db[i].prev # Nil => db[db[i].prev] # None /\ db[db[i].prev].next = i

\* A committed add and a committed remove, one of them re-run after a write
\* conflict, have left a list of at least two linked nodes.
PointerSymmetryWitness ==
    \E p, q \in Procs :
        /\ ops[p].kind = "add" /\ ops[q].kind = "remove"
        /\ Fulfilled(p) /\ Fulfilled(q)
        /\ transient[p] \/ transient[q]
        /\ \E i \in Persisted : db[i].next # Nil

\* C2 -- Uniqueness of head and tail: in every committed state at most one
\* persisted node has prev = null and at most one has next = null (the empty
\* list has neither).
UniqueHeadTail ==
    /\ Cardinality(Heads(db)) <= 1
    /\ Cardinality(Tails(db)) <= 1

\* The nodes met by following next from node i for at most k steps.
RECURSIVE WalkFrom(_, _)
WalkFrom(i, k) ==
    IF i = Nil \/ k = 0 \/ db[i] = None THEN <<>>
    ELSE <<i>> \o WalkFrom(db[i].next, k - 1)

\* C3 -- Walk completeness: in every committed state the walk from the head
\* along next ends (no cycle) and visits every persisted node exactly once.
WalkComplete ==
    Persisted # {} =>
        /\ Heads(db) # {}
        /\ \A h \in Heads(db) :
               LET w == WalkFrom(h, Cardinality(Persisted) + 1)
               IN /\ Len(w) = Cardinality(Persisted)
                  /\ {w[k] : k \in 1..Len(w)} = Persisted

\* C4 -- No dangling pointers after concurrent load: once every call has
\* returned or raised, every non-null prev and next of every persisted node
\* names a persisted node.
NoDanglingAtQuiescence ==
    AllDone =>
        \A i \in Persisted :
            /\ db[i].next # Nil => db[db[i].next] # None
            /\ db[i].prev # Nil => db[db[i].prev] # None

\* Quiescence of the longest chain after the remove of an inner node raced an
\* add anchored at that node: the remove won, the add was re-run and rejected.
NoDanglingWitness ==
    /\ AllDone
    /\ init = MaxInit
    /\ \E q, r \in Procs : \E a \in 2..(init - 1) :
        /\ ops[q] = RemoveOf(a) /\ Fulfilled(q)
        /\ ops[r] = AddOf(a) /\ Rejected(r) /\ transient[r]


\* C5 -- Concurrent deletes of the same node: of k >= 2 calls
\* removeNodeExclusive(b) on a node b of the list, once all have ended exactly
\* one has succeeded and every other one was rejected with the ConflictError
\* "Node not found or already deleted" (never "RETRY"); when they are the only
\* calls on the chain 1 -> 2 -> 3 and b = 2, the list left is 1 -> 3.
SameTargetDeletes ==
    \A b \in 1..init :
        LET D == {p \in Procs : ops[p] = RemoveOf(b)}
        IN (Cardinality(D) >= 2 /\ \A p \in D : pc[p] = "done") =>
            /\ Cardinality({p \in D : Fulfilled(p)}) = 1
            /\ \A p \in D : ~Fulfilled(p) =>
                   /\ Rejected(p)
                   /\ isConflictError(err[p])
                   /\ err[p].message = NotFound
            /\ (init = 3 /\ b = 2 /\ D = Calls) =>
                   /\ Persisted = {1, 3}
                   /\ db[1] = Doc(Nil, 3, 1)
                   /\ db[3] = Doc(1, Nil, 1)

\* Every call is a delete of node 2 of 1 -> 2 -> 3 and all have ended, a
\* rejected one after a write conflict.
SameTargetDeletesWitness ==
    /\ init = 3
    /\ \A p \in Procs : ops[p] = RemoveOf(2) /\ pc[p] = "done"
    /\ \E p \in Procs : Rejected(p) /\ transient[p]

\* The race of addNodeExclusive(1) (call p) with removeNodeExclusive(1)
\* (call q) on the single-node list.
AddVsDelete(p, q) ==
    /\ init = 1
    /\ ops[p] = AddOf(1)
    /\ ops[q] = RemoveOf(1)
    /\ Calls = {p, q}

\* C6 (as claimed) -- add-after versus delete of the same single node: under
\* no interleaving do both calls succeed.
AddVsDeleteNotBoth ==
    \A p, q \in Procs : AddVsDelete(p, q) => ~(Fulfilled(p) /\ Fulfilled(q))

\* C6 (amended) -- both calls succeed only when the add commits first: the
\* delete then commits second, removes node 1 and leaves the created node as
\* the whole list; the add never succeeds after the delete has committed.
AddVsDeleteBothOnlyAddFirst ==
    \A p, q \in Procs :
        (AddVsDelete(p, q) /\ Fulfilled(p) /\ Fulfilled(q)) =>
            /\ log = <<p, q>>
            /\ Persisted = {NewId(p)}
            /\ db[NewId(p)] = Doc(Nil, Nil, 1)

\* Both calls of the race have succeeded, the delete after a write conflict.
AddVsDeleteBothWitness ==
    \E p, q \in Procs :
        AddVsDelete(p, q) /\ Fulfilled(p) /\ Fulfilled(q) /\ transient[q]

\* C7 -- add-after versus delete of the same single node: once both have
\* ended at least one has succeeded, and when the delete succeeded and the add
\* failed, the add was rejected with the ConflictError "Reference node was
\* deleted".
AddVsDeleteOneSucceeds ==
    \A p, q \in Procs :
        (AddVsDelete(p, q) /\ pc[p] = "done" /\ pc[q] = "done") =>
            /\ Fulfilled(p) \/ Fulfilled(q)
            /\ (Fulfilled(q) /\ ~Fulfilled(p)) =>
                   /\ Rejected(p)
                   /\ isConflictError(err[p])
                   /\ err[p].message = ReferenceDeleted

\* The delete won the race and the add, re-run after the write conflict, was
\* rejected.
AddVsDeleteOneWitness ==
    \E p, q \in Procs :
        AddVsDelete(p, q) /\ Fulfilled(q) /\ Rejected(p) /\ transient[p]

\* Two calls addNodeExclusive(1) on the single-node list.
TwoAdds(p, q) ==
    /\ init = 1
    /\ p # q
    /\ ops[p] = AddOf(1)
    /\ ops[q] = AddOf(1)
    /\ Calls = {p, q}

\* The collection is exactly the list a -> x -> y.
IsList3(a, x, y) ==
    /\ Persisted = {a, x, y}
    /\ db[a].prev = Nil /\ db[a].next = x
    /\ db[x].prev = a /\ db[x].next = y
    /\ db[y].prev = x /\ db[y].next = Nil

\* C8 -- Concurrent adds after the same single node: once both have ended at
\* least one has succeeded, and when both have, the list is exactly
\* 1 -> X -> Y or 1 -> Y -> X (X, Y the created nodes), with symmetric
\* pointers, one head and one tail.
TwoAddsBothLinked ==
    \A p, q \in Procs :
        (TwoAdds(p, q) /\ pc[p] = "done" /\ pc[q] = "done") =>
            /\ Fulfilled(p) \/ Fulfilled(q)
            /\ (Fulfilled(p) /\ Fulfilled(q)) =>
                   /\ IsList3(1, NewId(p), NewId(q)) \/ IsList3(1, NewId(q), NewId(p))
                   /\ PointerSymmetry
                   /\ UniqueHeadTail

\* Both adds have succeeded, one of them re-run after a write conflict.
TwoAddsWitness ==
    \E p, q \in Procs :
        TwoAdds(p, q) /\ Fulfilled(p) /\ Fulfilled(q) /\ transient[q]

\* removeNodeExclusive(2) and removeNodeExclusive(4) on 1 -> 2 -> 3 -> 4.
TwoRemoves(p, q) ==
    /\ init = 4
    /\ ops[p] = RemoveOf(2)
    /\ ops[q] = RemoveOf(4)
    /\ Calls = {p, q}

\* C9 -- Concurrent deletes of the non-adjacent nodes 2 and 4 of
\* 1 -> 2 -> 3 -> 4: once both have ended both have succeeded and the list
\* left is 1 -> 3.
TwoRemovesBothSucceed ==
    \A p, q \in Procs :
        (TwoRemoves(p, q) /\ pc[p] = "done" /\ pc[q] = "done") =>
            /\ Fulfilled(p) /\ Fulfilled(q)
            /\ Persisted = {1, 3}
            /\ db[1].prev = Nil /\ db[1].next = 3
            /\ db[3].prev = 1 /\ db[3].next = Nil

\* Both deletes have succeeded, the one that lost the race on node 3 after
\* its callback was re-run.
TwoRemovesWitness ==
    \E p, q \in Procs :
        /\ TwoRemoves(p, q) /\ Fulfilled(p) /\ Fulfilled(q)
        /\ transient[p] \/ transient[q]

\* One step of the collection keeps the version discipline at _id i.
VersionStep(i) ==
    /\ (db[i] = None /\ db'[i] # None) => db'[i].version = 0
    /\ (db[i] # None /\ db'[i] # None) =>
           db'[i].version = db[i].version
               + (IF db'[i].prev # db[i].prev \/ db'[i].next # db[i].next THEN 1 ELSE 0)

\* C10 -- Version discipline: a node enters the collection with version 0;
\* every commit raises by exactly 1 the version of each existing node whose
\* pointer it changes, however many aborted runs preceded it, and leaves the
\* version of every other node alone; after one addNodeExclusive(1) run alone
\* on the single-node list, node 1 has version 1.
VersionDiscipline ==
    /\ [][\A i \in Ids : VersionStep(i)]_vars
    /\ [](\A p \in Procs :
            (init = 1 /\ Calls = {p} /\ ops[p] = AddOf(1) /\ pc[p] = "done")
                => db[1].version = 1)

\* A call whose callback was re-run after a write conflict has committed and
\* a node of the initial chain has reached version 2.
VersionDisciplineWitness ==
    \E p \in Procs :
        /\ Fulfilled(p) /\ transient[p]
        /\ \E i \in 1..init : db[i] # None /\ db[i].version = 2

\* C11 -- Version monotonicity: across the committed states in which a node
\* exists its version never decreases, under any interleaving of calls and
\* any number of re-run callbacks.
VersionMonotone ==
    [][\A i \in Ids : (db[i] # None /\ db'[i] # None) => db'[i].version >= db[i].version]_vars

\* An insert at the head has committed on a head that an earlier commit had
\* already raised to version 1.
VersionMonotoneWitness ==
    \E p \in Procs :
        /\ ops[p] = AddOf(Nil) /\ Fulfilled(p)
        /\ \E i \in 1..init : db[i] # None /\ db[i].version = 2 /\ db[i].prev = NewId(p)

\* The calls that have committed.
Committed == {log[k] : k \in 1..Len(log)}

\* Call p removes an id that was never persisted.
RemovesMissing(p) == ops[p].kind = "remove" /\ ops[p].arg > init

\* C12 -- removeNodeExclusive(id) for an id that is not persisted is rejected
\* with the ConflictError "Node not found or already deleted" after a single
\* run of the callback (no retry, no re-run), writes nothing, and no step of
\* the call changes a persisted node.
RemoveMissingFails ==
    /\ [](\A p \in Procs : RemovesMissing(p) =>
            /\ attempt[p] = 0 /\ ~transient[p]
            /\ wr[p] = NoWrites /\ p \notin Committed
            /\ pc[p] \in {"loop", "callback", "catch", "done"}
            /\ pc[p] = "done" =>
                   Rejected(p) /\ isConflictError(err[p]) /\ err[p].message = NotFound
            /\ Calls = {p} => db = Chain(init))
    /\ [][\A p \in Procs : (RemovesMissing(p) /\ pc'[p] # pc[p]) => db' = db]_vars

\* A remove of a missing id has been rejected while the list holds nodes.
RemoveMissingWitness ==
    \E p \in Procs : RemovesMissing(p) /\ Rejected(p) /\ init >= 1 /\ Persisted # {}

\* Call p inserts after an id that was never persisted.
AddsAfterMissing(p) == ops[p].kind = "add" /\ ops[p].arg # Nil /\ ops[p].arg > init

\* C13 -- addNodeExclusive(prevId) for a non-nil prevId that is not persisted
\* is rejected with the ConflictError "Reference node was deleted" after a
\* single run of the callback, creates no node, and no step of the call
\* changes a persisted node.
AddAfterMissingFails ==
    /\ [](\A p \in Procs : AddsAfterMissing(p) =>
            /\ attempt[p] = 0 /\ ~transient[p]
            /\ wr[p] = NoWrites /\ p \notin Committed
            /\ db[NewId(p)] = None
            /\ pc[p] \in {"loop", "callback", "catch", "done"}
            /\ pc[p] = "done" =>
                   Rejected(p) /\ isConflictError(err[p]) /\ err[p].message = ReferenceDeleted
            /\ Calls = {p} => db = Chain(init))
    /\ [][\A p \in Procs : (AddsAfterMissing(p) /\ pc'[p] # pc[p]) => db' = db]_vars

\* An insert after a missing id has been rejected while the list holds nodes.
AddAfterMissingWitness ==
    \E p \in Procs : AddsAfterMissing(p) /\ Rejected(p) /\ init >= 1 /\ Persisted # {}

\* The step ends a run of p's callback with an error: thrown to withRetry's
\* catch block, or a write conflict after which the callback is re-run.
AttemptFails(p) ==
    \/ pc[p] # "catch" /\ pc'[p] = "catch"
    \/ pc[p] \notin {"loop", "callback"} /\ pc'[p] = "callback"

\* C14 -- A failed attempt leaves no trace: a run of insert-after or delete
\* that ends with an error, also after some of its conditional updates had
\* succeeded, changes nothing in the committed collection and nothing in any
\* other call's transaction, and its writes are discarded: no pointer change,
\* no version bump, no inserted node.
FailedAttemptNoTrace ==
    /\ [][\A p \in Procs : AttemptFails(p) =>
            /\ db' = db
            /\ wr'[p] = NoWrites
            /\ \A q \in Procs \ {p} : wr'[q] = wr[q] /\ snap'[q] = snap[q]]_vars
    /\ [](\A p \in Procs :
            /\ pc[p] \in {"loop", "callback", "catch"} => wr[p] = NoWrites
            /\ p \notin Committed => db[NewId(p)] = None)

\* The delete of node 2 has been aborted by a write conflict on node 3 after
\* its update of node 1 had succeeded, and node 1 is as it was.
FailedAttemptWitness ==
    \E p, q \in Procs :
        /\ ops[p] = RemoveOf(2) /\ ops[q] = RemoveOf(4)
        /\ transient[p] /\ pc[p] = "callback"
        /\ db[1] = Doc(Nil, 2, 0)

\* C15 -- withRetry never retries a CONFLICT: when a run of the operation
\* raises a ConflictError, withRetry ends the session of that attempt and
\* rejects with the same error without starting another attempt, whatever
\* the number of attempts already used.
ConflictNotRetried ==
    /\ [][\A p \in Procs :
            (pc[p] = "catch" /\ isConflictError(err[p]) /\ pc'[p] # "catch") =>
                /\ pc'[p] = "done" /\ status'[p] = "rejected"
                /\ err'[p] = err[p]
                /\ attempt'[p] = attempt[p]
                /\ sessions'[p] = 0]_vars
    /\ [][\A p \in Procs :
            pc[p] = "done" => pc'[p] = "done" /\ attempt'[p] = attempt[p]]_vars
    /\ [](\A p \in Procs : pc[p] = "done" => sessions[p] = 0)

\* A ConflictError raised in the fourth attempt or later has been rethrown.
ConflictNotRetriedWitness ==
    \E p \in Procs :
        /\ Rejected(p) /\ isConflictError(err[p]) /\ err[p].message = NotFound
        /\ attempt[p] >= 3

\* The error withRetry raises past its loop.
IsExhausted(e) == isConflictError(e) /\ e.message = Exhausted

\* C16 -- Bounded retry: withRetry runs the operation again after each run
\* that ends with "RETRY", counting one attempt each time; the attempts are
\* numbered 0 .. maxRetries - 1, no run starts once maxRetries attempts have
\* ended with "RETRY", and withRetry then rejects with the ConflictError
\* "Could not complete operation after several retries", and only then.
BoundedRetry ==
    /\ [](\A p \in Procs :
            /\ attempt[p] <= maxRetries
            /\ pc[p] \in {"callback", "commit", "catch"} => attempt[p] < maxRetries
            /\ (Rejected(p) /\ IsExhausted(err[p])) <=>
                   (pc[p] = "done" /\ attempt[p] = maxRetries))
    /\ [][\A p \in Procs :
            /\ (pc[p] = "catch" /\ err[p] = RetryError /\ pc'[p] # "catch") =>
                   pc'[p] = "loop" /\ attempt'[p] = attempt[p] + 1
            /\ attempt'[p] # attempt[p] =>
                   pc[p] = "catch" /\ err[p] = RetryError /\ attempt'[p] = attempt[p] + 1
            /\ (pc[p] = "loop" /\ pc'[p] = "callback") => attempt[p] < maxRetries]_vars

\* maxRetries attempts have ended with "RETRY" and the call is rejected.
BoundedRetryWitness ==
    \E p \in Procs :
        ops[p] = ClosureOp /\ Rejected(p) /\ IsExhausted(err[p]) /\ attempt[p] = maxRetries

\* C17 -- RETRYABLE never reaches a caller: a run that ends with "RETRY" is
\* followed by another attempt or, once the attempts are used up, by a
\* ConflictError; no call is ever rejected with an error whose message is
\* "RETRY", and every rejection of addNodeExclusive / removeNodeExclusive is
\* a ConflictError.
RetryNeverSurfaces ==
    /\ [](\A p \in Procs :
            /\ pc[p] = "done" => err[p].message # "RETRY"
            /\ (pc[p] = "done" /\ attempt[p] = maxRetries) => IsExhausted(err[p])
            /\ (Rejected(p) /\ ops[p].kind \in {"add", "remove"}) => isConflictError(err[p]))
    /\ [][\A p \in Procs :
            (pc[p] = "catch" /\ err[p] = RetryError /\ pc'[p] # "catch") =>
                pc'[p] = "loop" /\ status'[p] = "pending" /\ err'[p] = NoError]_vars

\* A call has succeeded in an attempt that followed runs ended with "RETRY".
RetryNeverSurfacesWitness ==
    \E p \in Procs : ops[p] = ClosureOp /\ Fulfilled(p) /\ attempt[p] >= 2

\* The step is a re-run of p's callback by withTransaction after a write
\* conflict.
WriteConflictStep(p) ==
    /\ pc'[p] = "callback"
    /\ pc[p] # "loop"
    /\ pc[p] = "callback" => transient'[p] # transient[p]

IsOtherError(e) == e # NoError /\ ~isConflictError(e) /\ e.message # "RETRY"

\* C19 as stated -- a call rejected with an error that is neither CONFLICT
\* nor RETRYABLE has committed nothing.
OtherErrorNotCommitted ==
    \A p \in Procs : (Rejected(p) /\ IsOtherError(err[p])) => p \notin Committed

\* C19 -- An error that is neither a ConflictError nor "RETRY" is rethrown
\* to the caller unchanged after the session has ended, with no further
\* attempt; when the operation threw it, the attempt's writes are not
\* committed.  The one such error raised after the commit is withRetry's own
\* "Transaction yielded no result", for an operation that returned undefined.
OtherErrorRethrown ==
    /\ [][\A p \in Procs :
            (pc[p] = "catch" /\ IsOtherError(err[p]) /\ pc'[p] # "catch") =>
                /\ pc'[p] = "done" /\ status'[p] = "rejected"
                /\ err'[p] = err[p]
                /\ attempt'[p] = attempt[p]
                /\ sessions'[p] = 0
                /\ db' = db]_vars
    /\ [](\A p \in Procs :
            /\ (Rejected(p) /\ err[p] = StorageError) => p \notin Committed
            /\ (Rejected(p) /\ IsOtherError(err[p]) /\ p \in Committed) =>
                   err[p].message = NoResult /\ result[p] = Undefined)

\* An error thrown by the operation in a later attempt has been rethrown and
\* nothing was committed.
OtherErrorRethrownWitness ==
    \E p \in Procs :
        /\ Rejected(p) /\ err[p] = StorageError /\ attempt[p] >= 1
        /\ p \notin Committed /\ sessions[p] = 0

\* The entry of updatedNodes for _id i records what the running transaction
\* wrote to i.
EntryFromThisRun(p, i) ==
    LET e == updatedNodes[p][i]
    IN e # NoUpdate =>
           /\ wr[p][i] \notin {Untouched, None}
           /\ e.prev # Unset => e.prev = wr[p][i].prev
           /\ e.next # Unset => e.next = wr[p][i].next

\* C20 -- Fresh session and fresh reads per attempt: every attempt of
\* withRetry starts one session, which is ended before the next attempt
\* starts and before withRetry returns or raises; every run of the callback
\* starts without locals, snapshot, writes or updatedNodes of an earlier run
\* and reads the collection as committed at that moment; the result returned
\* is the one of the attempt that committed, and its updatedNodes holds only
\* what the committing run wrote.
FreshPerAttempt ==
    /\ [](\A p \in Procs :
            /\ sessions[p] <= 1
            /\ pc[p] \in {"idle", "loop", "done"} => sessions[p] = 0
            /\ pc[p] \notin {"idle", "loop", "done", "catch"} => sessions[p] = 1
            /\ pc[p] \in {"loop", "callback"} =>
                   /\ snap[p] = NoSnap /\ wr[p] = NoWrites
                   /\ loc[p] = NoLoc /\ updatedNodes[p] = NoUpdates
            /\ pc[p] = "commit" =>
                   /\ result[p] \in {Undefined, attempt[p]}
                   /\ \A i \in Ids : EntryFromThisRun(p, i)
            /\ Fulfilled(p) => result[p] = attempt[p])
    /\ [][\A p \in Procs :
            /\ (pc[p] = "loop" /\ pc'[p] = "callback") =>
                   sessions[p] = 0 /\ sessions'[p] = 1 /\ result'[p] = Undefined
            /\ (pc[p] = "callback" /\ pc'[p] \notin {"callback", "catch"}
                  /\ ops[p] # ClosureOp) => snap'[p] = db]_vars

\* The delete of node 3 has committed in a re-run; its updatedNodes names
\* nodes 1 and 4 and not node 2, which the concurrent delete of node 2 had
\* removed.
FreshPerAttemptWitness ==
    \E p, q \in Procs :
        /\ ops[p] = RemoveOf(3) /\ ops[q] = RemoveOf(2)
        /\ Fulfilled(p) /\ Fulfilled(q) /\ transient[p]
        /\ updatedNodes[p][1] = [prev |-> Unset, next |-> 4]
        /\ updatedNodes[p][4] = [prev |-> 1, next |-> Unset]
        /\ updatedNodes[p][2] = NoUpdate
        /\ sessions[p] = 0

\* Call p is the only call and has finished.
RanAlone(p) == Calls = {p} /\ pc[p] = "done"

\* The collection d with the documents of f installed (f maps some ids to
\* documents).
With(d, f) == [i \in Ids |-> IF i \in DOMAIN f THEN f[i] ELSE d[i]]

\* The updatedNodes map holding exactly the entries of f.
Updates(f) == [i \in Ids |-> IF i \in DOMAIN f THEN f[i] ELSE NoUpdate]

\* C21 -- Insert at head, run alone: addNodeExclusive(null) on the empty list
\* persists exactly one node (nil, nil, version 0) and returns an empty
\* updatedNodes; on a list with head H it persists N = (nil, H, version 0),
\* sets H.prev = N with H.version + 1, changes nothing else, and returns
\* createdNode = N and updatedNodes = {H: {prev: N}}.
InsertAtHeadAlone ==
    \A p \in Procs : (RanAlone(p) /\ ops[p] = AddOf(Nil)) =>
        LET N == NewId(p)
        IN /\ Fulfilled(p)
           /\ newNode(p) = db[N]
           /\ init = 0 =>
                  /\ db = With(Chain(0), N :> Doc(Nil, Nil, 0))
                  /\ updatedNodes[p] = NoUpdates
           /\ init >= 1 =>
                  /\ db = With(Chain(init),
                               N :> Doc(Nil, 1, 0) @@ 1 :> Doc(N, Chain(init)[1].next, 1))
                  /\ updatedNodes[p] = Updates(1 :> [prev |-> N, next |-> Unset])

\* An insert at the head of a list of at least two nodes has run alone.
InsertAtHeadAloneWitness ==
    \E p \in Procs : RanAlone(p) /\ ops[p] = AddOf(Nil) /\ init >= 2 /\ Fulfilled(p)

\* C22 -- Insert after a node, run alone: addNodeExclusive(P) with P.next = Q
\* persists N = (P, Q, version 0), sets P.next = N with P.version + 1 and,
\* when Q is not nil, Q.prev = N with Q.version + 1; every other node is
\* unchanged; the result is createdNode = N and updatedNodes = {P: {next: N}}
\* plus {Q: {prev: N}} when Q is not nil.
InsertAfterAlone ==
    \A p \in Procs : \A P \in 1..init : (RanAlone(p) /\ ops[p] = AddOf(P)) =>
        LET N == NewId(p)
            Q == Chain(init)[P].next
            c == Chain(init)
        IN /\ Fulfilled(p)
           /\ newNode(p) = db[N]
           /\ Q = Nil =>
                  /\ db = With(c, N :> Doc(P, Nil, 0) @@ P :> Doc(c[P].prev, N, 1))
                  /\ updatedNodes[p] = Updates(P :> [prev |-> Unset, next |-> N])
           /\ Q # Nil =>
                  /\ db = With(c, N :> Doc(P, Q, 0) @@ P :> Doc(c[P].prev, N, 1)
                                    @@ Q :> Doc(N, c[Q].next, 1))
                  /\ updatedNodes[p] = Updates(P :> [prev |-> Unset, next |-> N]
                                                 @@ Q :> [prev |-> N, next |-> Unset])

\* An insert between two nodes of a longer list has run alone.
InsertAfterAloneWitness ==
    \E p \in Procs : \E P \in 2..init :
        RanAlone(p) /\ ops[p] = AddOf(P) /\ P < init /\ Fulfilled(p)

\* C23 -- Delete, run alone: removeNodeExclusive(D) with D.prev = a and
\* D.next = n removes D; when a is not nil a.next becomes n with a.version + 1;
\* when n is not nil n.prev becomes a with n.version + 1; every other node is
\* unchanged; updatedNodes holds exactly those pointer changes (nil where the
\* new pointer is nil); deleting the sole node updates no neighbour and leaves
\* the empty list.
DeleteAlone ==
    \A p \in Procs : \A D \in 1..init : (RanAlone(p) /\ ops[p] = RemoveOf(D)) =>
        LET c == Chain(init)
            a == c[D].prev
            n == c[D].next
            fa == IF a # Nil THEN a :> Doc(c[a].prev, n, 1) ELSE <<>>
            fn == IF n # Nil THEN n :> Doc(a, c[n].next, 1) ELSE <<>>
            ua == IF a # Nil THEN a :> [prev |-> Unset, next |-> n] ELSE <<>>
            un == IF n # Nil THEN n :> [prev |-> a, next |-> Unset] ELSE <<>>
        IN /\ Fulfilled(p)
           /\ db = With(c, D :> None @@ fa @@ fn)
           /\ updatedNodes[p] = Updates(ua @@ un)
           /\ init = 1 => Persisted = {} /\ updatedNodes[p] = NoUpdates

\* A middle node of a list has been deleted by a call running alone.
DeleteAloneWitness ==
    \E p \in Procs : \E D \in 2..init :
        RanAlone(p) /\ ops[p] = RemoveOf(D) /\ D < init /\ Fulfilled(p) /\ db[D] = None

\* The positions of emitted that carry the delta of call p.
EntriesOf(p) == {k \in 1..Len(emitted) : emitted[k].call = p}

\* The handler of call p has answered.
Handled(p) == p \in Broadcast \/ errors[p] # NoErrorSent

\* C24 -- Session handler outcome routing: every addNode / removeNode request
\* is answered in exactly one way.  Either the call committed and one
\* nodeAdded / nodeRemoved delta carrying its result is emitted to every
\* connected socket (the originator's included), or the call raised and one
\* error message with its message and operation name is emitted to the
\* originating socket; never both, never a delta for a call that did not
\* commit, never a delta before the commit.
OutcomeRouting ==
    /\ [](\A p \in Procs :
            /\ Cardinality(EntriesOf(p)) <= 1
            /\ ~(p \in Broadcast /\ errors[p] # NoErrorSent)
            /\ p \in Broadcast =>
                   /\ p \in Committed /\ Fulfilled(p)
                   /\ \A k \in EntriesOf(p) :
                          /\ emitted[k].event =
                                 (IF ops[p].kind = "add" THEN "nodeAdded" ELSE "nodeRemoved")
                          /\ emitted[k].updatedNodes = updatedNodes[p]
                          /\ connected[p] => p \in emitted[k].to
            /\ errors[p] # NoErrorSent =>
                   /\ Rejected(p) /\ p \notin Committed
                   /\ errors[p] = [message |-> err[p].message, operation |-> OperationName(p)]
            /\ (pc[p] = "done" /\ ~Handled(p)) =>
                   ENABLED (Handler_Emit(p) \/ Handler_Error(p)))
    /\ [][Len(emitted') > Len(emitted) =>
            /\ Len(emitted') = Len(emitted) + 1
            /\ emitted'[Len(emitted')].to = Connected]_vars

\* One request has been answered by a broadcast and another by an error
\* message.
OutcomeRoutingWitness ==
    \E p, q \in Procs : p \in Broadcast /\ errors[q] # NoErrorSent /\ connected[p]

\* Every call has finished and its handler has answered.
Quiescent == \A p \in Calls : pc[p] = "done" /\ Handled(p)

\* The client list l and the collection d hold the same nodes with the same
\* pointers.
SamePointers(l, d) ==
    \A i \in Ids :
        /\ l[i] = None <=> d[i] = None
        /\ l[i] # None => l[i].prev = d[i].prev /\ l[i].next = d[i].next

\* The broadcasts were emitted in the order of the commits.
EmittedInCommitOrder == [k \in 1..Len(emitted) |-> emitted[k].call] = log

\* C25 -- Broadcast-state agreement: after quiescence, a client that started
\* from the attach snapshot (empty for the empty list) and applied every
\* broadcast delta in the order of delivery holds the same nodes with the
\* same prev / next pointers as the persisted collection.
BroadcastStateAgreement == Quiescent => SamePointers(Client, db)

\* The same when the broadcasts left in commit order.
AgreementInCommitOrder == (Quiescent /\ EmittedInCommitOrder) => SamePointers(Client, db)

\* C26 as stated -- a call whose client disconnected while it was in flight
\* commits nothing and has no delta broadcast.
DisconnectRollsBack ==
    \A p \in Procs : ~connected[p] => p \notin Committed /\ p \notin Broadcast

\* C26 -- Disconnect during an operation: the disconnect of the originating
\* client changes nothing but the set of connected sockets; the call runs on
\* as any other, and when it commits its delta is broadcast to the sockets
\* still connected; when it raises, its error message goes to the closed
\* socket.
DisconnectIgnored ==
    /\ [][connected' # connected =>
            UNCHANGED <<db, init, ops, attach, pc, attempt, snap, wr, loc, updatedNodes, err,
                        status, log, transient, sessions, result, emitted, errors>>]_vars
    /\ [](\A p \in Procs : ~connected[p] =>
            /\ (pc[p] = "done" /\ ~Handled(p)) =>
                   ENABLED (Handler_Emit(p) \/ Handler_Error(p))
            /\ pc[p] = "commit" => ENABLED Commit(p)
            /\ p \in Broadcast =>
                   /\ p \in Committed
                   /\ \A k \in EntriesOf(p) : emitted[k].to = Procs \ {p})

\* The call of a client that disconnected while it ran has changed the
\* collection and its delta went to the other sockets.
DisconnectIgnoredWitness ==
    \E p \in Procs :
        /\ ~connected[p] /\ p \in Committed /\ p \in Broadcast
        /\ db # Chain(init)

\* Call p names nothing or a node of the initial chain.
TargetExists(p) == p \in Calls /\ ops[p].arg <= init

\* C27 -- Global progress: among concurrent calls whose targets exist, some
\* attempt commits in every round of attempts, so a commit eventually
\* happens.
GlobalProgress == (\E p \in Procs : TargetExists(p)) ~> (Committed # {})

\* What does hold of progress: no call is rejected for retry exhaustion, and
\* once all calls have finished at least one has committed when the target
\* of some call existed.
NotAllFail ==
    /\ \A p \in Procs : ~(Rejected(p) /\ IsExhausted(err[p]))
    /\ (AllDone /\ \E p \in Procs : TargetExists(p)) => Committed # {}

\* Both calls had a run aborted by a write conflict and both have finished,
\* one of them committed.
NotAllFailWitness ==
    \E p, q \in Procs :
        p # q /\ transient[p] /\ transient[q] /\ AllDone /\ Committed # {}

\* Calls p and q are both addNodeExclusive(P) for the same node P of the
\* initial chain, and p committed before q did.
CommittedInTurn(p, q) ==
    /\ p # q
    /\ ops[p].kind = "add" /\ ops[p].arg # Nil /\ ops[p].arg <= init
    /\ ops[q] = ops[p]
    /\ \E j, k \in 1..Len(log) : j < k /\ log[j] = p /\ log[k] = q

\* The nodes met by following next from the head of the collection.
Reachable ==
    UNION {LET w == WalkFrom(h, Cardinality(Persisted))
           IN {w[k] : k \in 1..Len(w)} : h \in Heads(db)}

\* C28 -- Lost-update prevention: two insert-after calls naming the same
\* node P never both commit on the same read of P.version and P.next; the
\* one that commits second has read P after the first one's commit (a
\* higher version, a next that is no longer the one the first call read),
\* and the nodes both calls created are persisted, reachable from the head,
\* symmetric with their neighbours, and behind a node while P exists.  While
\* both hold the same read of P, at most one of them has written P.
LostUpdatePrevented ==
    /\ \A p, q \in Procs :
           CommittedInTurn(p, q) =>
               /\ ~(loc[p].version = loc[q].version /\ loc[p].nextId = loc[q].nextId)
               /\ loc[q].version > loc[p].version
               /\ loc[q].nextId # loc[p].nextId
               /\ db[NewId(p)] # None /\ db[NewId(q)] # None
               /\ {NewId(p), NewId(q)} \subseteq Reachable
               /\ \A n \in {NewId(p), NewId(q)} :
                      /\ db[ops[p].arg] # None => db[n].prev # Nil
                      /\ db[n].prev # Nil =>
                             db[db[n].prev] # None /\ db[db[n].prev].next = n
                      /\ db[n].next # Nil =>
                             db[db[n].next] # None /\ db[db[n].next].prev = n
    /\ \A p, q \in Procs :
           (/\ p # q /\ ops[p].kind = "add" /\ ops[p].arg # Nil /\ ops[q] = ops[p]
            /\ loc[p] # NoLoc /\ loc[p] = loc[q]
            /\ pc[p] \notin {"done", "catch"} /\ pc[q] \notin {"done", "catch"})
               => ~(wr[p][ops[p].arg] # Untouched /\ wr[q][ops[q].arg] # Untouched)

\* Two calls insert after node 1 of a longer list; the second to commit was
\* re-run after a write conflict and linked its node in front of the node
\* the first one created.
LostUpdatePreventedWitness ==
    \E p, q \in Procs :
        /\ CommittedInTurn(p, q) /\ init >= 2 /\ ops[p].arg = 1
        /\ transient[q]
        /\ loc[q].nextId = NewId(p)
        /\ db[NewId(q)].next = NewId(p)

\* The step is the commit of call p's transaction, and p returns.
CommitsNow(p) ==
    /\ pc[p] = "commit" /\ log' = Append(log, p)
    /\ status'[p] = "fulfilled"

\* The calls of one kind that have returned.
Successful(kind) == {p \in Procs : ops[p].kind = kind /\ Fulfilled(p)}

\* C29 -- Node lifecycle: a document appears in the collection only in the
\* commit step of the add call that created it and disappears only in the
\* commit step of a remove call naming its id; in every state the number of
\* persisted nodes is the initial count plus the adds that returned minus
\* the removes that returned; and a call that raised has committed nothing
\* and the step in which it is rejected leaves the collection as it was.
NodeLifecycle ==
    /\ [](Cardinality(Persisted) =
             init + Cardinality(Successful("add")) - Cardinality(Successful("remove")))
    /\ [](\A p \in Procs : Rejected(p) => p \notin Committed)
    /\ [][/\ \A i \in Ids :
               /\ (db[i] = None /\ db'[i] # None) =>
                      \E p \in Procs :
                          CommitsNow(p) /\ ops[p].kind = "add" /\ i = NewId(p)
               /\ (db[i] # None /\ db'[i] = None) =>
                      \E p \in Procs : CommitsNow(p) /\ ops[p] = RemoveOf(i)
          /\ \A p \in Procs :
               (~Rejected(p) /\ status'[p] = "rejected") => db' = db]_vars

\* An add and a remove have both returned: one node was created, a node of
\* the initial chain was destroyed, and the count is the initial one again.
NodeLifecycleWitness ==
    /\ Successful("add") # {} /\ Successful("remove") # {}
    /\ \E p \in Procs : db[NewId(p)] # None
    /\ \E i \in 1..init : db[i] = None
    /\ Cardinality(Persisted) = init

\* The lists a client can hold when a broadcast arrives: the snapshot of the
\* initial chain or the empty initial state (the "nodes" message has not
\* arrived yet), followed by the first k broadcasts.
ClientLists ==
    {ClientAfter(l0, k) : l0 \in {setNodes(Chain(init)), initialState},
                          k \in 0..Len(emitted)}

\* The ids named by a delta's updatedNodes.
Named(d) == {i \in Ids : d.updatedNodes[i] # NoUpdate}

\* C30 -- Client delta application is idempotent and tolerant: for every
\* list a client can hold and every broadcast delta, applying the delta a
\* second time changes nothing, and an id named in updatedNodes that the
\* list does not hold is still absent after the delta (the reducer yields a
\* list, with no entry made for that id).
DeltaIdempotentTolerant ==
    \A c \in ClientLists : \A j \in 1..Len(emitted) :
        LET d == emitted[j]
            c1 == Dispatch(c, d)
        IN /\ Dispatch(c1, d) = c1
           /\ DOMAIN c1 = Ids
           /\ \A i \in Named(d) : c[i] = None => c1[i] = None

\* A client that holds the initial snapshot receives, as its next
\* broadcast, a delta whose updatedNodes names a node it does not hold (the
\* delta that created that node is broadcast later).
DeltaIdempotentTolerantWitness ==
    \E k \in 0..(Len(emitted) - 1) :
        LET c == ClientAfter(setNodes(Chain(init)), k)
            d == emitted[k + 1]
        IN /\ \E i \in Named(d) : c[i] = None
           /\ Dispatch(c, d) # c

\* The step throws "RETRY" out of call p's callback (a conditional update
\* or delete returned null).
RaisesRetry(p) == pc[p] \notin {"catch", "loop", "done"} /\ pc'[p] = "catch" /\ err'[p] = RetryError

\* Some node that call p's attempt read still exists and was changed by a
\* transaction that committed after the read.
LostRace(p) ==
    \E i \in Ids : snap[p][i] # None /\ db[i] # None /\ db[i] # snap[p][i]

\* C31 -- A predicate failure is always a lost race: a step in which a
\* conditional update or delete of an attempt fails ("RETRY") is taken only
\* when a node the attempt read still exists and was changed by a commit
\* after the read; a call that runs with no other call never raises
\* "RETRY": it is never re-run, its attempt counter stays 0 and it ends
\* with its result or with a ConflictError for a missing node.
PredicateFailureIsLostRace ==
    /\ [][\A p \in Procs : RaisesRetry(p) => LostRace(p)]_vars
    /\ [](\A p \in Procs :
            Calls = {p} =>
                /\ err[p] # RetryError /\ attempt[p] = 0 /\ ~transient[p]
                /\ pc[p] = "done" =>
                       \/ Fulfilled(p)
                       \/ Rejected(p) /\ isConflictError(err[p])
                                      /\ err[p].message \in {NotFound, ReferenceDeleted})

\* A call that ran alone through both neighbour updates and the delete has
\* returned without a failed predicate.
PredicateFailureWitness ==
    \E p \in Procs :
        /\ RanAlone(p) /\ Fulfilled(p) /\ ops[p].kind = "remove"
        /\ loc[p].prevId # Nil /\ loc[p].nextId # Nil
        /\ attempt[p] = 0

Gone(a) == a > init \/ \E q \in Committed : ops[q] = RemoveOf(a)

Writes(p) == {i \in Ids : wr[p][i] # Untouched}

\* Pointer symmetry of a collection state d.
Symmetric(d) ==
    \A i \in Ids :
        d[i] # None =>
            /\ d[i].next # Nil => d[d[i].next] # None /\ d[d[i].next].prev = i
            /\ d[i].prev # Nil => d[d[i].prev] # None /\ d[d[i].prev].next = i

\* C34 -- Isolation of an attempt: the collection changes only in the
\* commit step of a transaction, which applies all of that attempt's
\* writes together; the state a session reads from is the committed
\* collection at the time of its first read, without any write of an open
\* transaction; and no session ever reads from a state in which only some
\* of an operation's neighbour updates are applied (every snapshot is
\* pointer-symmetric).
AttemptIsolated ==
    /\ [][db' # db =>
            \E p \in Procs :
                /\ pc[p] = "commit" /\ log' = Append(log, p)
                /\ db' = [i \in Ids |-> IF i \in Writes(p) THEN wr[p][i] ELSE db[i]]
                /\ wr'[p] = NoWrites]_vars
    /\ [][\A q \in Procs :
            (snap'[q] # snap[q] /\ snap'[q] # NoSnap) => snap'[q] = db]_vars
    /\ [](\A q \in Procs : Symmetric(snap[q]))

\* One transaction has written two documents and has not committed; another
\* session has read the collection, where those documents are unchanged.
AttemptIsolatedWitness ==
    \E p, q \in Procs :
        /\ p # q /\ Cardinality(Writes(p)) >= 2
        /\ loc[q] # NoLoc /\ snap[q] = db /\ pc[q] \notin {"done", "catch", "loop"}
        /\ \A i \in Writes(p) : db[i] # wr[p][i]

\* The nodes a commit of call p may change, read off the committed
\* collection the commit is applied to: the node named and its neighbours
\* (the head, for an insert at the head) and the node p creates.
Frame(p) ==
    LET a == ops[p].arg
    IN IF ops[p].kind = "add"
       THEN IF a = Nil
            THEN Heads(db) \cup {NewId(p)}
            ELSE ({a, NewId(p)} \cup (IF db[a] # None THEN {db[a].next} ELSE {})) \ {Nil}
       ELSE ({a} \cup (IF db[a] # None THEN {db[a].prev, db[a].next} ELSE {})) \ {Nil}

\* The documents the step changes.
Changed == {i \in Ids : db'[i] # db[i]}

\* C35 -- Frame of a committed operation: a step that changes the
\* collection is the commit of one call and changes only that call's
\* frame: P, P's successor and the new node for an insert after P; the
\* head and the new node for a head insert (one existing node at most);
\* D, D.prev and D.next for a delete of D.  Every other node keeps its
\* prev, next and version.
CommitFrame ==
    [][Changed # {} =>
        \E p \in Procs :
            /\ CommitsNow(p)
            /\ Changed \subseteq Frame(p)
            /\ (ops[p] = AddOf(Nil)) => Cardinality(Changed \ {NewId(p)}) <= 1
            /\ \A i \in Ids \ Frame(p) : db'[i] = db[i]]_vars

\* The delete of node 2 and an insert after node 1 of a four-node list have
\* both committed: nodes 1 and 3 changed, node 2 is gone, and node 4,
\* outside both frames, is as it was initially.
CommitFrameWitness ==
    \E p, q \in Procs :
        /\ init = 4 /\ ops[p] = RemoveOf(2) /\ ops[q] = AddOf(1)
        /\ {p, q} \subseteq Committed
        /\ db[4] = Chain(init)[4]
        /\ db[1] # Chain(init)[1] /\ db[3] # Chain(init)[3] /\ db[2] = None

\* The existing nodes whose prev or next the step changes (the node created
\* and the node deleted by the step are not among them).
PointerChanged ==
    {i \in Ids : /\ db[i] # None /\ db'[i] # None
                 /\ (db'[i].prev # db[i].prev \/ db'[i].next # db[i].next)}

\* C36 -- Returned deltas agree with the commit: in the commit step of a
\* call that returns, every pointer given in an entry of the returned
\* updatedNodes is the value of that pointer of that node in the collection
\* after the commit, createdNode carries the prev and next of the new
\* document in that collection, and the nodes with an entry are exactly the
\* existing nodes whose prev or next the commit changed.
DeltaAgreesWithCommit ==
    [][\A p \in Procs :
          CommitsNow(p) =>
              LET un == updatedNodes'[p]
              IN /\ \A i \in Ids :
                        /\ un[i].prev # Unset => db'[i] # None /\ db'[i].prev = un[i].prev
                        /\ un[i].next # Unset => db'[i] # None /\ db'[i].next = un[i].next
                 /\ ops[p].kind = "add" =>
                        /\ db'[NewId(p)] # None
                        /\ newNode(p).prev = db'[NewId(p)].prev
                        /\ newNode(p).next = db'[NewId(p)].next
                 /\ {i \in Ids : un[i] # NoUpdate} = PointerChanged]_vars

\* The remove of the tail of a longer list has returned after a re-run: its
\* one entry gives the predecessor a null next, as persisted.
DeltaAgreesWitness ==
    \E p \in Procs :
        /\ Fulfilled(p) /\ ops[p].kind = "remove" /\ transient[p]
        /\ loc[p].prevId # Nil /\ loc[p].nextId = Nil
        /\ updatedNodes[p][loc[p].prevId] = [prev |-> Unset, next |-> Nil]
        /\ db[loc[p].prevId] # None /\ db[loc[p].prevId].next = Nil

\* C37 -- Missing-neighbour conflicts are unreachable: from a chain with
\* symmetric pointers no call ever raises 'Next node deleted concurrently'
\* or 'Previous node deleted concurrently'; the ConflictErrors raised are
\* the missing anchor or target ones and retry exhaustion only.
NoMissingNeighbour ==
    \A p \in Procs :
        /\ err[p].message \notin {NextDeleted, PrevDeleted}
        /\ isConflictError(err[p]) =>
               err[p].message \in {ReferenceDeleted, NotFound, Exhausted}

\* A call is about to read the successor of the node it names after a
\* concurrent remove of that successor has committed: its snapshot still
\* holds the successor.
NoMissingNeighbourWitness ==
    \E p \in Procs :
        /\ pc[p] \in {"ia_updateNext", "rm_updateNext"}
        /\ loc[p].nextId # Nil
        /\ db[loc[p].nextId] = None
        /\ TxView(p, loc[p].nextId) # None

DriverTerminatesUnlessStarved ==
    \A p \in Procs :
        (p \in Calls /\ <>[][~WriteConflictStep(p)]_vars) => <>(pc[p] = "done")

\* C39 -- Attach during concurrent edits: a client that attached while the
\* calls ran holds, after quiescence, exactly the persisted nodes with the
\* same prev / next pointers (its list is the snapshot followed by the
\* deltas delivered to it, in delivery order); no committed change is
\* missing because its delta was delivered before the snapshot.
AttachAgreement ==
    (Quiescent /\ attach.phase = "synced") => SamePointers(AttachedClient, db)

\* What does hold: the agreement for a client whose snapshot was read and
\* sent with no commit and no broadcast in between, when the broadcasts left
\* in commit order.
AttachAgreementAtomicSnapshot ==
    (/\ Quiescent /\ attach.phase = "synced" /\ EmittedInCommitOrder
     /\ \E k \in 0..Len(log) :
            /\ attach.at = k
            /\ attach.nodes = ClientAfter(setNodes(Chain(init)), k))
        => SamePointers(AttachedClient, db)

\* C40 as stated -- commit implies return: a call whose transaction has
\* committed is not in its catch block and is never rejected.
CommitImpliesReturn ==
    \A p \in Procs : p \in Committed => pc[p] # "catch" /\ ~Rejected(p)

\* C40 -- When an attempt's transaction commits, withRetry returns that
\* attempt's result if it is not undefined; for an undefined result it
\* throws 'Transaction yielded no result' after the commit and the call is
\* rejected although the transaction is committed.  The handlers' calls
\* always return an object, so for them commit implies return.
CommitReturnsDefinedResult ==
    /\ [][\A p \in Procs :
            (pc[p] = "commit" /\ log' = Append(log, p)) =>
                IF result[p] # Undefined
                THEN /\ pc'[p] = "done" /\ status'[p] = "fulfilled"
                     /\ result'[p] = attempt[p]
                ELSE /\ pc'[p] = "catch" /\ status'[p] = "pending"
                     /\ err'[p] = [name |-> "Error", message |-> NoResult]]_vars
    /\ [](\A p \in Procs :
            /\ (p \in Committed /\ pc[p] = "done") =>
                   \/ Fulfilled(p) /\ result[p] = attempt[p]
                   \/ Rejected(p) /\ result[p] = Undefined /\ err[p].message = NoResult
            /\ (ops[p].kind \in {"add", "remove"} /\ p \in Committed) => Fulfilled(p))

\* An operation that returned undefined was committed and its call was
\* rejected with 'Transaction yielded no result'.
CommitReturnsWitness ==
    \E p \in Procs :
        /\ p \in Committed /\ Rejected(p)
        /\ result[p] = Undefined
        /\ err[p] = [name |-> "Error", message |-> NoResult]

====
